---- MODULE Spec2Model ----
(***************************************************************************)
(* A model of django_elasticsearch.query.EsQueryset: the lazy, chainable   *)
(* cursor over a search backend.  The state is a heap of cursor objects    *)
(* (every cursor the application holds a reference to); one action per      *)
(* public operation of EsQueryset.                                          *)
(*                                                                          *)
(* Encoding of Python values:                                               *)
(*   None            <<>>            (an optional value is a 0/1-tuple)      *)
(*   a value v       <<v>>           where the attribute may be None         *)
(*   a filter value  a tuple of integers: a scalar v is <<v>>, a pair        *)
(*                   (a, b) is <<a, b>>, True is <<1>>, False is <<0>>       *)
(*   a lookup key    a sequence of words (the parts between '__'), each      *)
(*                   word a sequence of atoms (the parts between '.')        *)
(*   a dict          a sequence of [k, v] entries with unique keys, in       *)
(*                   insertion order                                        *)
(***************************************************************************)
EXTENDS Integers, Sequences, FiniteSets, TLC

VARIABLES
    qs,     \* the heap: qs[i] is the i-th EsQueryset object ever created
    born,   \* born[i]: the call that created qs[i] and the filters of its receiver then
    last,   \* the last public call: its name, receiver, arguments, result and requests
    nops,   \* number of public calls made so far
    cur     \* cur[t]: the cursor thread t works on, when threads share the heap

vars == <<qs, born, last, nops, cur>>

(***************************************************************************)
(* Bounds of the model.                                                    *)
(***************************************************************************)
NDocs == 2          \* documents in the index: ids 1..NDocs
MaxOps == 3         \* public calls in one behaviour
MaxLookups == 2     \* filter / exclude calls chained in one behaviour of SpecLookup
MaxWords == 3       \* segments of a lookup in SpecParse
MaxSteps == 4       \* calls of the two threads together in SpecThreads

MODE_SEARCH == 1
MODE_MLT == 2

None == <<>>
Some(v) == <<v>>

\* Python truth value of an optional integer (None and 0 are false).
Truthy(o) == o # None /\ o[1] # 0

Min(a, b) == IF a <= b THEN a ELSE b

\* F(v), with v evaluated once
Let(v, F(_)) == CHOOSE x \in {F(y) : y \in {v}} : TRUE

(***************************************************************************)
(* dict helpers (insertion-ordered, unique keys).                           *)
(***************************************************************************)
DictKeys(d) == {d[i].k : i \in 1..Len(d)}

DictHas(d, key) == key \in DictKeys(d)

DictGet(d, key) == (CHOOSE i \in 1..Len(d) : d[i].k = key)

DictValue(d, key) == d[DictGet(d, key)].v

\* d[key] = value
DictSet(d, key, value) ==
    IF DictHas(d, key)
    THEN [d EXCEPT ![DictGet(d, key)] = [k |-> key, v |-> value]]
    ELSE Append(d, [k |-> key, v |-> value])

\* d.update(other)
RECURSIVE DictUpdate(_, _)
DictUpdate(d, other) ==
    IF other = <<>> THEN d
    ELSE DictUpdate(DictSet(d, Head(other).k, Head(other).v), Tail(other))

(***************************************************************************)
(* Lookup parser.                                                           *)
(***************************************************************************)
valid_operators ==
    {"must", "must_not", "should", "range", "gt", "lt", "gte", "lte",
     "exists", "isnull"}

\* a word of a lookup that spells an operator
IsOperatorWord(w) == Len(w) = 1 /\ w[1] \in valid_operators

RECURSIVE JoinDot(_)
JoinDot(words) ==
    IF words = <<>> THEN <<>> ELSE Head(words) \o JoinDot(Tail(words))

\* a parser that takes the last word of a lookup of several words for its
\* operator, whatever it spells
sanitize_lookup_any_operator(lookup) ==
    [field |-> JoinDot(SelectSeq(lookup, LAMBDA w : ~IsOperatorWord(w))),
     operator |-> IF Len(lookup) > 1 THEN lookup[Len(lookup)][1] ELSE "must"]

\* sanitize_lookup(lookup) -> (field path, operator)
sanitize_lookup(lookup) ==
    [field |-> JoinDot(SelectSeq(lookup, LAMBDA w : ~IsOperatorWord(w))),
     operator |-> IF IsOperatorWord(lookup[Len(lookup)])
                  THEN lookup[Len(lookup)][1] ELSE "must"]

(***************************************************************************)
(* The index descriptor of the model class (model.es).                      *)
(***************************************************************************)
\* model.es.mapping['properties'][field]['type'], "" when not mapped
MappingType(f) ==
    CASE f = "id" -> "long"
      [] f = "first_name" -> "text"
      [] f = "groups" -> "nested"
      [] OTHER -> ""

(***************************************************************************)
(* Query compiler.  A clause is                                             *)
(*   [kind, field, ops, vals, query, nested]                                *)
(* kind: match_all | multi_match | term | match | range | exists;          *)
(* ops/vals: the bounds of a range clause, or the value of a term clause;  *)
(* nested: None, or Some(bucket) when the clause sits in that bucket of a  *)
(* nested query on the field's first segment.                              *)
(***************************************************************************)
Clause(kind, field, ops, vals) ==
    [kind |-> kind, field |-> field, ops |-> ops, vals |-> vals,
     query |-> "", nested |-> None]

EmptyBool == [must |-> <<>>, must_not |-> <<>>, should |-> <<>>]

\* nested_update(search, {bucket: [clause]}): the bucket lists are concatenated
nested_update(search, bucket, clause) ==
    [search EXCEPT ![bucket] = Append(search[bucket], clause)]

\* make_search_body whose range lookup excludes its two bounds
PlainFragment_exclusive_range(field, field_, operator, value) ==
    CASE operator \in {"must", "must_not", "should"} ->
            [bucket |-> operator,
             clause |-> Clause(IF MappingType(field_) = "text" THEN "match" ELSE "term",
                               field, <<>>, value)]
      [] operator \in {"gt", "gte", "lt", "lte"} ->
            [bucket |-> "must", clause |-> Clause("range", field, <<operator>>, value)]
      [] operator = "range" ->
            [bucket |-> "must",
             clause |-> Clause("range", field, <<"gt", "lt">>, <<value[1], value[2]>>)]
      [] operator = "isnull" ->
            [bucket |-> IF value[1] # 0 THEN "must_not" ELSE "must",
             clause |-> Clause("exists", field, <<>>, <<>>)]
      [] operator = "exists" ->
            [bucket |-> IF value[1] # 0 THEN "must" ELSE "must_not",
             clause |-> Clause("exists", field, <<>>, <<>>)]
      [] OTHER ->
            [bucket |-> "ValueError", clause |-> Clause("", field, <<>>, <<>>)]

\* The clause one filter entry contributes and its bucket; the bucket is
\* "ValueError" for an operator without a branch.
PlainFragment(field, field_, operator, value) ==
    CASE operator \in {"must", "must_not", "should"} ->
            [bucket |-> operator,
             clause |-> Clause(IF MappingType(field_) = "text" THEN "match" ELSE "term",
                               field, <<>>, value)]
      [] operator \in {"gt", "gte", "lt", "lte"} ->
            [bucket |-> "must", clause |-> Clause("range", field, <<operator>>, value)]
      [] operator = "range" ->
            [bucket |-> "must",
             clause |-> Clause("range", field, <<"gte", "lte">>, <<value[1], value[2]>>)]
      [] operator = "isnull" ->
            [bucket |-> IF value[1] # 0 THEN "must_not" ELSE "must",
             clause |-> Clause("exists", field, <<>>, <<>>)]
      [] operator = "exists" ->
            [bucket |-> IF value[1] # 0 THEN "must" ELSE "must_not",
             clause |-> Clause("exists", field, <<>>, <<>>)]
      [] OTHER ->
            [bucket |-> "ValueError", clause |-> Clause("", field, <<>>, <<>>)]

\* if is_nested: the clause goes into a nested query in the must bucket
NestedFragment(frag, field_) ==
    IF MappingType(field_) = "nested" /\ frag.bucket # "ValueError"
    THEN [bucket |-> "must", clause |-> [frag.clause EXCEPT !.nested = Some(frag.bucket)]]
    ELSE frag

FirstSegment(field) == IF field = <<>> THEN "" ELSE field[1]

FilterFragment(key, value) ==
    Let(sanitize_lookup(key), LAMBDA sl :
        Let(PlainFragment(sl.field, FirstSegment(sl.field), sl.operator, value),
            LAMBDA frag : NestedFragment(frag, FirstSegment(sl.field))))

\* a merge in which the clause of a filter replaces the clauses its bucket holds
RECURSIVE MergeFilters_overwrites(_, _)
MergeFilters_overwrites(search, filters) ==
    IF filters = <<>> THEN search
    ELSE Let(FilterFragment(Head(filters).k, Head(filters).v), LAMBDA frag :
            MergeFilters_overwrites([search EXCEPT ![frag.bucket] = <<frag.clause>>],
                                    Tail(filters)))

RECURSIVE MergeFilters(_, _)
MergeFilters(search, filters) ==
    IF filters = <<>> THEN search
    ELSE Let(FilterFragment(Head(filters).k, Head(filters).v), LAMBDA frag :
            MergeFilters(nested_update(search, frag.bucket, frag.clause),
                         Tail(filters)))

\* make_search_body() that seeds match_all whenever there is no query text
make_search_body_seeds_with_filters(c) ==
    LET seed ==
            IF c._query # ""
            THEN [EmptyBool EXCEPT !.must =
                    <<[Clause("multi_match", <<>>, <<>>, <<>>) EXCEPT !.query = c._query]>>]
            ELSE [EmptyBool EXCEPT !.must = <<Clause("match_all", <<>>, <<>>, <<>>)>>]
    IN  MergeFilters(seed, c.filters)

\* make_search_body(): the value of body['query']['bool']
make_search_body(c) ==
    LET seed ==
            IF c._query # ""
            THEN [EmptyBool EXCEPT !.must =
                    <<[Clause("multi_match", <<>>, <<>>, <<>>) EXCEPT !.query = c._query]>>]
            ELSE IF c.filters = <<>>
            THEN [EmptyBool EXCEPT !.must = <<Clause("match_all", <<>>, <<>>, <<>>)>>]
            ELSE EmptyBool
    IN  MergeFilters(seed, c.filters)

(***************************************************************************)
(* The search backend (es_client) over a fixed index of NDocs documents.    *)
(* Document d has the single field id = d.                                  *)
(***************************************************************************)
Docs == 1..NDocs

\* the value of a field of a document, None when the document has no such field
FieldValue(d, field) == IF field = <<"id">> THEN Some(d) ELSE None

\* documents the analyzer finds for a free-text query
TextMatches(d, query) == query = "" \/ d = 1

HoldsBound(x, op, bound) ==
    CASE op = "gt" -> x > bound
      [] op = "gte" -> x >= bound
      [] op = "lt" -> x < bound
      [] op = "lte" -> x <= bound

ClauseMatches(d, cl) ==
    CASE cl.kind = "match_all" -> TRUE
      [] cl.kind = "multi_match" -> TextMatches(d, cl.query)
      [] cl.kind \in {"term", "match"} -> cl.vals = FieldValue(d, cl.field)
      [] cl.kind = "range" ->
            \E x \in {FieldValue(d, cl.field)} :
                x # None /\ \A i \in 1..Len(cl.ops) :
                               HoldsBound(x[1], cl.ops[i], cl.vals[i])
      [] cl.kind = "exists" -> FieldValue(d, cl.field) # None
      [] OTHER -> FALSE

\* a clause as it counts in its bucket: a nested clause is a bool query of
\* its own with the clause in the inner bucket
InBucketMatches(d, cl) ==
    IF cl.nested = None \/ cl.nested[1] # "must_not"
    THEN ClauseMatches(d, cl)
    ELSE ~ClauseMatches(d, cl)

BoolMatches(d, b) ==
    /\ \A i \in 1..Len(b.must) : InBucketMatches(d, b.must[i])
    /\ \A i \in 1..Len(b.must_not) : ~InBucketMatches(d, b.must_not[i])
    /\ (b.must = <<>> /\ b.should # <<>>)
          => \E i \in 1..Len(b.should) : InBucketMatches(d, b.should[i])

RECURSIVE Ascending(_)
Ascending(S) ==
    IF S = {} THEN <<>>
    ELSE Let(CHOOSE x \in S : \A y \in S : x <= y,
             LAMBDA m : <<m>> \o Ascending(S \ {m}))

Reverse(s) == [i \in 1..Len(s) |-> s[Len(s) + 1 - i]]

\* the matching documents in the order the request's sort asks for
Ordered(S, sort) ==
    IF sort # None /\ sort[1] # <<>> /\ sort[1][1].order = "desc"
    THEN Reverse(Ascending(S))
    ELSE Ascending(S)

\* hits[offset : offset + size]
Window(hits, offset, size) ==
    SubSeq(hits, offset + 1,
           IF size = None THEN Len(hits) ELSE Min(Len(hits), offset + size[1]))

\* the documents a search request matches
Matching(req) ==
    IF req.more_like_this # None
    THEN {d \in Docs : Some(d) # req.more_like_this[1].like_id}
    ELSE {d \in Docs : req.body.query # None /\ BoolMatches(d, req.body.query[1])}

Offset(req) ==
    IF req.from_ # None THEN req.from_[1]
    ELSE IF req.from # None THEN req.from[1] ELSE 0

SearchResponse(req, matching, hits) ==
    [hits |-> hits,
     total |-> Cardinality(matching),
     max_score |-> IF hits = <<>> THEN None ELSE Some(1),
     aggregations |-> req.body.aggs,
     suggest |-> req.body.suggest]

\* es_client.search(**search_params) -> r
es_search(req) ==
    Let(Matching(req), LAMBDA matching :
        Let(Window(Ordered(matching, req.body.sort), Offset(req), req.size),
            LAMBDA hits : SearchResponse(req, matching, hits)))

\* es_client.count(index, body) -> r['count']
es_count(req) ==
    Cardinality({d \in Docs : BoolMatches(d, req.body.query[1])})

\* the row kept for a hit: the raw mapping, or the object the serializer
\* builds from it
Row(d, deserialized) == [id |-> d, raw |-> ~deserialized]

(***************************************************************************)
(* The cursor object.                                                       *)
(***************************************************************************)
ResultFields == {"_result_cache", "_facets", "_suggestions", "_total"}

\* __init__(model)
NewCursor ==
    [mode |-> MODE_SEARCH, mlt_kwargs |-> None, filters |-> <<>>,
     extra_body |-> None, facets_fields |-> None, facets_limit |-> None,
     global_facets |-> None, suggest_fields |-> None, suggest_limit |-> None,
     ordering |-> None, _query |-> "", _deserialize |-> FALSE,
     _start |-> 0, _stop |-> None,
     _suggestions |-> None, _facets |-> None, _result_cache |-> <<>>,
     _total |-> None,
     \* set by do_search / get only; None stands for "no such attribute"
     _response |-> None, _max_score |-> None]

\* the attributes that make up the query state
QueryFields == (DOMAIN NewCursor) \ (ResultFields \cup {"_response", "_max_score"})

\* __deepcopy__: a fresh object, then every attribute but the four result
\* attributes copied over it
__deepcopy__(c) ==
    [NewCursor EXCEPT
        !.mode = c.mode, !.mlt_kwargs = c.mlt_kwargs, !.filters = c.filters,
        !.extra_body = c.extra_body, !.facets_fields = c.facets_fields,
        !.facets_limit = c.facets_limit, !.global_facets = c.global_facets,
        !.suggest_fields = c.suggest_fields, !.suggest_limit = c.suggest_limit,
        !.ordering = c.ordering, !._query = c._query,
        !._deserialize = c._deserialize, !._start = c._start, !._stop = c._stop,
        !._response = c._response, !._max_score = c._max_score]

\* a clone that starts with the full range as its window
_clone_resets_window(c) ==
    [__deepcopy__(c) EXCEPT !._result_cache = <<>>, !._total = None,
                            !._start = 0, !._stop = None]

\* _clone()
_clone(c) ==
    [__deepcopy__(c) EXCEPT !._result_cache = <<>>, !._total = None]

\* is_evaluated
is_evaluated(c) == Len(c._result_cache) > 0

(***************************************************************************)
(* Executor.                                                                *)
(***************************************************************************)
BodyKeys == {"query", "aggs", "suggest", "sort", "highlight"}

Aggs(c) ==
    [i \in 1..Len(c.facets_fields[1]) |->
        [field |-> c.facets_fields[1][i],
         size |-> IF i = Len(c.facets_fields[1]) /\ Truthy(c.facets_limit)
                  THEN c.facets_limit ELSE None]]

Suggest(c) ==
    [i \in 1..Len(c.suggest_fields[1]) |->
        [field |-> c.suggest_fields[1][i], text |-> c._query,
         size |-> IF Truthy(c.suggest_limit) THEN c.suggest_limit ELSE None]]

Sort(c) ==
    [i \in 1..Len(c.ordering[1]) + 1 |->
        IF i = Len(c.ordering[1]) + 1 THEN [field |-> <<"_score">>, order |-> ""]
        ELSE IF c.ordering[1][i][1] # "-"
             THEN [field |-> c.ordering[1][i], order |-> "asc"]
             ELSE [field |-> Tail(c.ordering[1][i]), order |-> "desc"]]

\* a merge in which the compiled keys win over the extra body
BodyUpdate_compiled_wins(body, extra) ==
    [key \in BodyKeys |->
        IF body[key] = None /\ DictHas(extra, key)
        THEN Some(DictValue(extra, key)) ELSE body[key]]

\* body.update(extra_body)
BodyUpdate(body, extra) ==
    [key \in BodyKeys |->
        IF DictHas(extra, key) THEN Some(DictValue(extra, key)) ELSE body[key]]

\* the body do_search sends
CompiledBody(c) ==
    [query |-> Some(make_search_body(c)),
     aggs |-> IF c.facets_fields # None /\ c.facets_fields[1] # <<>>
              THEN Some(Aggs(c)) ELSE None,
     suggest |-> IF c.suggest_fields # None /\ c.suggest_fields[1] # <<>>
                 THEN Some(Suggest(c)) ELSE None,
     sort |-> IF c.ordering # None /\ c.ordering[1] # <<>>
              THEN Some(Sort(c)) ELSE None,
     highlight |-> None]

SearchBody(c) ==
    Let(CompiledBody(c), LAMBDA body :
        IF c.extra_body # None /\ c.extra_body[1] # <<>>
        THEN BodyUpdate(body, c.extra_body[1])
        ELSE body)

MltGet(kwargs, key, default) ==
    IF DictHas(kwargs, key) THEN DictValue(kwargs, key) ELSE default

\* the keyword arguments of es_client.search
SearchParams(c) ==
    [api |-> "search",
     body |-> SearchBody(c),
     size |-> IF Truthy(c._stop) THEN Some(c._stop[1] - c._start) ELSE None,
     from |-> IF c.mode = MODE_MLT /\ c._start # 0 THEN Some(c._start) ELSE None,
     from_ |-> IF c.mode # MODE_MLT /\ c._start # 0 THEN Some(c._start) ELSE None,
     more_like_this |->
        IF c.mode = MODE_MLT
        THEN Some([fields |-> MltGet(c.mlt_kwargs[1], "fields", <<"_all">>),
                   like_id |-> MltGet(c.mlt_kwargs[1], "id", None),
                   min_term_frequency |->
                       MltGet(c.mlt_kwargs[1], "min_term_frequency", <<1>>),
                   max_term_frequency |->
                       MltGet(c.mlt_kwargs[1], "max_term_frequency", <<10>>)])
        ELSE None,
     id |-> None]

\* the assignments after the request returned r
StoreResponse(c, r) ==
    [c EXCEPT !._response = Some(r),
              !._facets = IF c.facets_fields # None /\ c.facets_fields[1] # <<>>
                          THEN r.aggregations ELSE c._facets,
              !._suggestions = r.suggest,
              !._result_cache = [i \in 1..Len(r.hits) |-> Row(r.hits[i], c._deserialize)],
              !._max_score = r.max_score,
              !._total = Some(r.total)]

\* do_search(): the cursor afterwards and the requests sent
do_search(c) ==
    IF is_evaluated(c)
    THEN [c |-> c, reqs |-> <<>>]
    ELSE Let(SearchParams(c), LAMBDA req :
            Let(es_search(req), LAMBDA r :
                [c |-> StoreResponse(c, r), reqs |-> <<req>>]))

(***************************************************************************)
(* The public methods.  Each is an operator from the receiver (and the     *)
(* arguments) to an outcome:                                                *)
(*   self    the receiver object after the call                             *)
(*   new     <<clone>> when the call created an object, else <<>>           *)
(*   retself TRUE when the call returned the receiver itself                *)
(*   reqs    the backend requests sent, in order                            *)
(*   raised  the exception that left the call, "" when it returned          *)
(*   rows    the rows returned (iteration, indexing, get)                   *)
(*   num     the number returned (count, len, membership, truth), else -1   *)
(***************************************************************************)
Outcome(c) ==
    [self |-> c, new |-> <<>>, retself |-> FALSE, reqs |-> <<>>, raised |-> "",
     rows |-> <<>>, num |-> -1]

Returns(c, clone) == [Outcome(c) EXCEPT !.new = <<clone>>]

Raises(c, exc) == [Outcome(c) EXCEPT !.raised = exc]

\* Python truth value of a filter value
ValueTruthy(v) == v # <<>> /\ (Len(v) = 1 => v[1] # 0)

\* search() whose keyword arguments replace the filters of the clone
search_replaces_filters(c, args, kwargs) ==
    IF (args = <<>> /\ kwargs = <<>>) \/ Len(args) > 1
    THEN Raises(c, "TypeError")
    ELSE Returns(c, [_clone(c) EXCEPT
                        !._query = IF Len(args) > 0 THEN args[1] ELSE @,
                        !.filters = IF Len(kwargs) > 0 THEN kwargs ELSE @])

\* search(*args, **kwargs)
search(c, args, kwargs) ==
    IF (args = <<>> /\ kwargs = <<>>) \/ Len(args) > 1
    THEN Raises(c, "TypeError")
    ELSE Returns(c, [_clone(c) EXCEPT
                        !._query = IF Len(args) > 0 THEN args[1] ELSE @,
                        !.filters = IF Len(kwargs) > 0 THEN DictUpdate(@, kwargs) ELSE @])

\* facet(fields, limit, use_globals)
facet(c, fields, limit, use_globals) ==
    Returns(c, [_clone(c) EXCEPT !.facets_fields = Some(fields),
                                 !.facets_limit = limit,
                                 !.global_facets = Some(use_globals)])

\* suggest(fields, limit)
suggest(c, fields, limit) ==
    Returns(c, [_clone(c) EXCEPT !.suggest_fields = Some(fields),
                                 !.suggest_limit = limit])

\* order_by() that sets the ordering of the receiver and returns it
order_by_in_place(c, fields) ==
    [Outcome([c EXCEPT !.ordering = Some(fields)]) EXCEPT !.retself = TRUE]

\* order_by() that appends the fields to the ordering the receiver has
order_by_appends(c, fields) ==
    Returns(c, [_clone(c) EXCEPT
                   !.ordering = IF @ = None THEN Some(fields) ELSE Some(@[1] \o fields)])

\* order_by(*fields)
order_by(c, fields) ==
    Returns(c, [_clone(c) EXCEPT !.ordering = Some(fields)])

\* filter() over a shallow copy: the clone's filters dict is the receiver's
filter_shared(c, kwargs) ==
    Returns([c EXCEPT !.filters = DictUpdate(@, kwargs)],
            [_clone(c) EXCEPT !.filters = DictUpdate(@, kwargs)])

\* filter(**kwargs)
filter(c, kwargs) ==
    Returns(c, [_clone(c) EXCEPT !.filters = DictUpdate(@, kwargs)])

inverse_map(operator) ==
    CASE operator = "gt" -> "lte"
      [] operator = "gte" -> "lt"
      [] operator = "lt" -> "gte"
      [] operator = "lte" -> "gt"

\* exclude() that stores an exists / isnull lookup with its value as given
ExcludeBranch_keeps_value(lookup, field, operator, value) ==
    CASE operator \in {"must", "should"} ->
            [k |-> <<field, <<"must_not">>>>, v |-> value]
      [] operator = "must_not" -> [k |-> <<field>>, v |-> value]
      [] operator \in {"gt", "gte", "lt", "lte"} ->
            [k |-> <<field, <<inverse_map(operator)>>>>, v |-> value]
      [] operator \in {"exists", "isnull"} -> [k |-> lookup, v |-> value]
      [] operator = "range" -> [k |-> lookup, v |-> <<value[2], value[1]>>]
      [] OTHER -> [k |-> <<>>, v |-> value]

\* the entry exclude() stores for one lookup; k = <<>> stands for the raise
ExcludeBranch(lookup, field, operator, value) ==
    CASE operator \in {"must", "should"} ->
            [k |-> <<field, <<"must_not">>>>, v |-> value]
      [] operator = "must_not" -> [k |-> <<field>>, v |-> value]
      [] operator \in {"gt", "gte", "lt", "lte"} ->
            [k |-> <<field, <<inverse_map(operator)>>>>, v |-> value]
      [] operator \in {"exists", "isnull"} ->
            [k |-> lookup, v |-> IF ValueTruthy(value) THEN <<0>> ELSE <<1>>]
      [] operator = "range" -> [k |-> lookup, v |-> <<value[2], value[1]>>]
      [] OTHER -> [k |-> <<>>, v |-> value]

ExcludeEntry(lookup, value) ==
    Let(sanitize_lookup(lookup), LAMBDA sl :
        ExcludeBranch(lookup, sl.field, sl.operator, value))

RECURSIVE ExcludeFilters(_, _)
ExcludeFilters(filters, kwargs) ==
    IF kwargs = <<>> THEN filters
    ELSE Let(ExcludeEntry(Head(kwargs).k, Head(kwargs).v), LAMBDA e :
            ExcludeFilters(DictSet(filters, e.k, e.v), Tail(kwargs)))

\* exclude(**kwargs)
exclude(c, kwargs) ==
    IF \E i \in 1..Len(kwargs) : ExcludeEntry(kwargs[i].k, kwargs[i].v).k = <<>>
    THEN Raises(c, "NotImplementedError")
    ELSE Returns(c, [_clone(c) EXCEPT
                        !.filters = DictUpdate(@, ExcludeFilters(<<>>, kwargs))])

\* all() that evaluates the clone before returning it
all_eager(c) ==
    Let(do_search(_clone(c)), LAMBDA r : [Returns(c, r.c) EXCEPT !.reqs = r.reqs])

\* all()
all(c) == Returns(c, _clone(c))

\* extra(body)
extra(c, body) == Returns(c, [_clone(c) EXCEPT !.extra_body = Some(body)])

\* mlt() that works on a clone, as the other chaining calls do
mlt_clone(c, id, kwargs) ==
    Returns(c, [_clone(c) EXCEPT !.mode = MODE_MLT,
                                 !.mlt_kwargs = Some(DictSet(kwargs, "id", id))])

\* mlt(id, **kwargs)
mlt(c, id, kwargs) ==
    [Outcome([c EXCEPT !.mode = MODE_MLT,
                       !.mlt_kwargs = Some(DictSet(kwargs, "id", id))])
        EXCEPT !.retself = TRUE]

\* deserialize()
deserialize(c) ==
    [Outcome([c EXCEPT !._deserialize = TRUE]) EXCEPT !.retself = TRUE]

\* the terminal operations that only run do_search() and read the object
Evaluate(c) ==
    Let(do_search(c), LAMBDA r : [Outcome(r.c) EXCEPT !.reqs = r.reqs])

\* __iter__()
__iter__(c) == Let(Evaluate(c), LAMBDA o : [o EXCEPT !.rows = o.self._result_cache])

\* __len__()
__len__(c) ==
    Let(Evaluate(c), LAMBDA o : [o EXCEPT !.num = Len(o.self._result_cache)])

\* __contains__(instance): instance.id in [e.id if self._deserialize else e["id"] ...]
Membership(o, cache, id) ==
    IF \E i \in 1..Len(cache) : cache[i].raw = o.self._deserialize
    THEN [o EXCEPT !.raised = IF o.self._deserialize THEN "AttributeError"
                              ELSE "TypeError"]
    ELSE [o EXCEPT !.num = IF \E i \in 1..Len(cache) : cache[i].id = id
                           THEN 1 ELSE 0]

__contains__(c, id) ==
    Let(Evaluate(c), LAMBDA o : Membership(o, o.self._result_cache, id))

\* the properties response, facets, suggestions
response(c) == Evaluate(c)

facets(c) == Evaluate(c)

suggestions(c) == Evaluate(c)

\* __getitem__(ndx): ndx is [type, start, stop] for a slice (start and stop
\* optional) or [type, start] with the index in start for an int
SetWindow(c, ndx) ==
    IF ndx.type = "slice"
    THEN [c EXCEPT !._result_cache = <<>>,
                   !._start = IF Truthy(ndx.start) THEN ndx.start[1] ELSE 0,
                   !._stop = ndx.stop]
    ELSE [c EXCEPT !._result_cache = <<>>,
                   !._start = ndx.start[1],
                   !._stop = Some(ndx.start[1] + 1)]

\* the return value with the first row read leniently: None past the end
Item_returns_none(o, ndx) ==
    IF ndx.type = "slice" THEN [o EXCEPT !.rows = o.self._result_cache]
    ELSE IF o.self._result_cache = <<>> THEN o
    ELSE [o EXCEPT !.rows = <<o.self._result_cache[1]>>]

Item(o, ndx) ==
    IF ndx.type = "slice" THEN [o EXCEPT !.rows = o.self._result_cache]
    ELSE IF o.self._result_cache = <<>> THEN [o EXCEPT !.raised = "IndexError"]
    ELSE [o EXCEPT !.rows = <<o.self._result_cache[1]>>]

__getitem__(c, ndx) ==
    Let(SetWindow(c, ndx), LAMBDA c1 : Let(Evaluate(c1), LAMBDA o : Item(o, ndx)))

REPR_OUTPUT_SIZE == 20

\* __str__()
__str__(c) ==
    Let(__getitem__(c, [type |-> "slice", start |-> None,
                        stop |-> Some(REPR_OUTPUT_SIZE + 1)]),
        LAMBDA o : [o EXCEPT !.rows = IF Len(@) > REPR_OUTPUT_SIZE
                                      THEN SubSeq(@, 1, REPR_OUTPUT_SIZE) ELSE @])

CountParams(c) ==
    [api |-> "count",
     body |-> [query |-> Some(make_search_body(c)), aggs |-> None, suggest |-> None,
               sort |-> None, highlight |-> None],
     size |-> None, from |-> None, from_ |-> None, more_like_this |-> None,
     id |-> None]

\* count()
count(c) ==
    IF Truthy(c._total)
    THEN [Outcome(c) EXCEPT !.num = c._total[1]]
    ELSE IF c.mode = MODE_MLT
    THEN Let(Evaluate(c), LAMBDA o : [o EXCEPT !.num = o.self._total[1]])
    ELSE Let(CountParams(c), LAMBDA req :
            Let(es_count(req), LAMBDA n :
                [Outcome([c EXCEPT !._total = Some(n)])
                    EXCEPT !.reqs = <<req>>, !.num = n]))

\* __nonzero__()
__nonzero__(c) ==
    Let(count(c), LAMBDA o : [o EXCEPT !.num = IF o.self._total # Some(0) THEN 1 ELSE 0])

KwGet(kwargs, key) == IF DictHas(kwargs, key) THEN DictValue(kwargs, key) ELSE None

PyOr(a, b) == IF ValueTruthy(a) THEN a ELSE b

\* get(**kwargs)
\* the identifier get() resolves, None when there is none
GetPk(c, kwargs) ==
    Let(PyOr(KwGet(kwargs, <<<<"pk">>>>), KwGet(kwargs, <<<<"id">>>>)), LAMBDA pk :
        IF pk # None THEN pk
        ELSE PyOr(KwGet(c.filters, <<<<"pk">>>>), KwGet(c.filters, <<<<"id">>>>)))

GetParams(pk) ==
    [api |-> "get",
     body |-> [query |-> None, aggs |-> None, suggest |-> None, sort |-> None,
               highlight |-> None],
     size |-> None, from |-> None, from_ |-> None, more_like_this |-> None,
     id |-> pk]

\* es_client.get(index, id) -> r, for an id of the index
es_get(req) ==
    [hits |-> <<req.id[1]>>, total |-> 1, max_score |-> None,
     aggregations |-> None, suggest |-> None]

Fetch(c, pk) ==
    IF pk = None THEN Raises(c, "AttributeError")
    ELSE IF pk[1] \notin Docs
    THEN [Raises(c, "NotFoundError") EXCEPT !.reqs = <<GetParams(pk)>>]
    ELSE [Outcome([c EXCEPT !._response = Some(es_get(GetParams(pk)))])
            EXCEPT !.reqs = <<GetParams(pk)>>,
                   !.rows = <<Row(pk[1], c._deserialize)>>]

get(c, kwargs) == Let(GetPk(c, kwargs), LAMBDA pk : Fetch(c, pk))

\* complete(field_name, query)
complete(c, field_name, query) ==
    [Outcome(c) EXCEPT !.reqs =
        <<[api |-> "search",
           body |-> [query |-> None, aggs |-> None,
                     suggest |-> Some(<<[field |-> field_name, text |-> query,
                                         size |-> None]>>),
                     sort |-> None, highlight |-> None],
           size |-> None, from |-> None, from_ |-> None, more_like_this |-> None,
           id |-> None]>>]

\* update(), delete(), prefetch_related()
update(c) == Raises(c, "NotImplementedError")

\* delete() that drops the rows the cursor holds before it raises
delete_drops_rows(c) ==
    Raises([c EXCEPT !._result_cache = <<>>], "NotImplementedError")

delete(c) == Raises(c, "NotImplementedError")

prefetch_related(c) == Raises(c, "NotImplementedError")

(***************************************************************************)
(* The arguments the application calls the methods with.                    *)
(***************************************************************************)
Kw(lookup, value) == <<[k |-> lookup, v |-> value]>>

IdGt == <<<<"id">>, <<"gt">>>>

\* (args, kwargs) of search(): no argument, a text, a field query, two texts
SearchCalls ==
    {<<<<>>, <<>>>>, <<<<"q">>, <<>>>>, <<<<>>, Kw(<<<<"id">>>>, <<1>>)>>,
     <<<<"q", "r">>, <<>>>>}

FilterCalls == {Kw(IdGt, <<1>>), Kw(IdGt, <<2>>)}

ExcludeCalls == {Kw(IdGt, <<1>>), Kw(<<<<"id">>, <<"range">>>>, <<1, 2>>)}

OrderCalls == {<<<<"-", "id">>>>}

ExtraCalls == {<<[k |-> "highlight", v |-> "fields"]>>}

GetCalls == {<<>>, Kw(<<<<"pk">>>>, <<1>>)}

\* the id mlt() is called with
MltId == <<1>>

IntIndex(i) == [type |-> "int", start |-> Some(i), stop |-> None]

Slice(start, stop) == [type |-> "slice", start |-> start, stop |-> stop]

\* qs[0], qs[NDocs] (out of range), qs[:1], qs[1:]
Indexes ==
    {IntIndex(0), IntIndex(NDocs), Slice(None, Some(1)), Slice(Some(1), None)}

(***************************************************************************)
(* The state machine: the application calls one method of one cursor.       *)
(***************************************************************************)
\* the threads of the application; outside SpecThreads there is one flow of
\* control and cur is not used
Threads == {1, 2}

Init ==
    /\ qs = <<NewCursor>>
    /\ born = <<[op |-> "__init__", parent |-> 0, kwargs |-> <<>>, pfilters |-> <<>>]>>
    /\ last = [op |-> "__init__", self |-> 1, args |-> <<>>, ret |-> 1,
               reqs |-> <<>>, raised |-> "", rows |-> <<>>, num |-> -1]
    /\ nops = 0
    /\ cur = [t \in Threads |-> [ref |-> 0, alone |-> NewCursor, rows |-> <<>>,
                                 reqs |-> <<>>, num |-> -1]]

\* the exceptions that report a call the API does not support; the
\* application does not catch them, so its run ends with the call that raised
\* one (IndexError depends on the data and is caught: the run goes on)
Fatal == {"TypeError", "NotImplementedError", "AttributeError"}

\* the cursors the application may still call
Receivers ==
    IF nops < MaxOps /\ last.raised \notin Fatal THEN 1..Len(qs) ELSE {}

\* the call op(kwargs) on qs[i] with outcome o; kwargs is what the call was
\* given: the keyword arguments, the index, or (args, kwargs) for search()
Effect(i, op, kwargs, o) ==
    /\ qs' = [qs EXCEPT ![i] = o.self] \o o.new
    /\ born' = IF o.new = <<>> THEN born
               ELSE Append(born, [op |-> op, parent |-> i, kwargs |-> kwargs,
                                  pfilters |-> qs[i].filters])
    /\ last' = [op |-> op, self |-> i, args |-> kwargs,
                ret |-> IF o.new # <<>> THEN Len(qs) + 1
                        ELSE IF o.retself THEN i ELSE 0,
                reqs |-> o.reqs, raised |-> o.raised, rows |-> o.rows,
                num |-> o.num]
    /\ nops' = nops + 1

\* a call made by the single flow of control
Call(i, op, kwargs, o) == Effect(i, op, kwargs, o) /\ UNCHANGED cur

Search == \E i \in Receivers : \E a \in SearchCalls :
            \E o \in {search(qs[i], a[1], a[2])} : Call(i, "search", a, o)

Facet == \E i \in Receivers :
            \E o \in {facet(qs[i], <<"id">>, Some(1), TRUE)} : Call(i, "facet", <<>>, o)

Suggest_ == \E i \in Receivers :
            \E o \in {suggest(qs[i], <<"id">>, None)} : Call(i, "suggest", <<>>, o)

OrderBy == \E i \in Receivers : \E f \in OrderCalls :
            \E o \in {order_by(qs[i], f)} : Call(i, "order_by", f, o)

Filter == \E i \in Receivers : \E kw \in FilterCalls :
            \E o \in {filter(qs[i], kw)} : Call(i, "filter", kw, o)

Exclude == \E i \in Receivers : \E kw \in ExcludeCalls :
            \E o \in {exclude(qs[i], kw)} : Call(i, "exclude", kw, o)

All == \E i \in Receivers :
            \E o \in {all(qs[i])} : Call(i, "all", <<>>, o)

Extra == \E i \in Receivers : \E b \in ExtraCalls :
            \E o \in {extra(qs[i], b)} : Call(i, "extra", b, o)

Mlt == \E i \in Receivers :
            \E o \in {mlt(qs[i], MltId, <<>>)} : Call(i, "mlt", <<>>, o)

Deserialize == \E i \in Receivers :
            \E o \in {deserialize(qs[i])} : Call(i, "deserialize", <<>>, o)

Iter == \E i \in Receivers :
            \E o \in {__iter__(qs[i])} : Call(i, "__iter__", <<>>, o)

Len_ == \E i \in Receivers :
            \E o \in {__len__(qs[i])} : Call(i, "__len__", <<>>, o)

Contains == \E i \in Receivers :
            \E o \in {__contains__(qs[i], 1)} : Call(i, "__contains__", <<>>, o)

Response == \E i \in Receivers :
            \E o \in {response(qs[i])} : Call(i, "response", <<>>, o)

Facets == \E i \in Receivers :
            \E o \in {facets(qs[i])} : Call(i, "facets", <<>>, o)

Suggestions == \E i \in Receivers :
            \E o \in {suggestions(qs[i])} : Call(i, "suggestions", <<>>, o)

GetItem == \E i \in Receivers : \E ndx \in Indexes :
            \E o \in {__getitem__(qs[i], ndx)} : Call(i, "__getitem__", ndx, o)

Str == \E i \in Receivers :
            \E o \in {__str__(qs[i])} : Call(i, "__str__", <<>>, o)

Count == \E i \in Receivers :
            \E o \in {count(qs[i])} : Call(i, "count", <<>>, o)

Nonzero == \E i \in Receivers :
            \E o \in {__nonzero__(qs[i])} : Call(i, "__nonzero__", <<>>, o)

Get == \E i \in Receivers : \E kw \in GetCalls :
            \E o \in {get(qs[i], kw)} : Call(i, "get", kw, o)

Complete == \E i \in Receivers :
            \E o \in {complete(qs[i], "id", "q")} : Call(i, "complete", <<>>, o)

Update == \E i \in Receivers :
            \E o \in {update(qs[i])} : Call(i, "update", <<>>, o)

Delete == \E i \in Receivers :
            \E o \in {delete(qs[i])} : Call(i, "delete", <<>>, o)

PrefetchRelated == \E i \in Receivers :
            \E o \in {prefetch_related(qs[i])} : Call(i, "prefetch_related", <<>>, o)

Next ==
    \/ Search \/ Facet \/ Suggest_ \/ OrderBy \/ Filter \/ Exclude \/ All
    \/ Extra \/ Mlt \/ Deserialize
    \/ Iter \/ Len_ \/ Contains \/ Response \/ Facets \/ Suggestions
    \/ GetItem \/ Str \/ Count \/ Nonzero \/ Get \/ Complete
    \/ Update \/ Delete \/ PrefetchRelated

Spec == Init /\ [][Next]_vars

(***************************************************************************)
(* Properties.                                                              *)
(***************************************************************************)
\* the calls that hand back a clone
CloneOps ==
    {"search", "filter", "exclude", "order_by", "facet", "suggest", "extra", "all"}

\* the chaining calls
ChainingOps == CloneOps \cup {"mlt", "deserialize"}

\* the terminal operations that read the evaluated cursor
TerminalOps ==
    {"__iter__", "__len__", "__contains__", "response", "facets", "suggestions"}

\* the fields a cloning call is meant to set on the clone
SetBy(op) ==
    CASE op = "search" -> {"_query", "filters"}
      [] op \in {"filter", "exclude"} -> {"filters"}
      [] op = "order_by" -> {"ordering"}
      [] op = "facet" -> {"facets_fields", "facets_limit", "global_facets"}
      [] op = "suggest" -> {"suggest_fields", "suggest_limit"}
      [] op = "extra" -> {"extra_body"}
      [] OTHER -> {}

\* the requests of the last call that went to the given backend api
Sent(api) == {j \in 1..Len(last.reqs) : last.reqs[j].api = api}

\* every entry of d other than key is in e with the same value
OthersKept(d, key, e) ==
    \A j \in 1..Len(d) :
        d[j].k # key => DictHas(e, d[j].k) /\ DictValue(e, d[j].k) = d[j].v

\* b and c were made by filter(k=v1) and filter(k=v2) on the same cursor
Siblings(b, c) ==
    /\ b # c
    /\ born[b].op = "filter" /\ born[c].op = "filter"
    /\ born[b].parent = born[c].parent
    /\ born[b].kwargs[1].k = born[c].kwargs[1].k

\* C1: cloning independence.  For B = A.filter(k=v1) and C = A.filter(k=v2),
\* made in either order, A.filters is what it was before both calls,
\* B.filters[k] = v1, C.filters[k] = v2, and every other entry of A.filters
\* is in B and in C with its value, in every later state.
C1_CloningIndependence ==
    \A b \in 1..Len(qs) :
        born[b].op = "filter" =>
            \A c \in 1..Len(qs) :
                Siblings(b, c) =>
                    /\ qs[born[b].parent].filters = born[b].pfilters
                    /\ qs[born[b].parent].filters = born[c].pfilters
                    /\ DictHas(qs[b].filters, born[b].kwargs[1].k)
                    /\ DictValue(qs[b].filters, born[b].kwargs[1].k) = born[b].kwargs[1].v
                    /\ DictHas(qs[c].filters, born[c].kwargs[1].k)
                    /\ DictValue(qs[c].filters, born[c].kwargs[1].k) = born[c].kwargs[1].v
                    /\ OthersKept(qs[born[b].parent].filters, born[b].kwargs[1].k,
                                  qs[b].filters)
                    /\ OthersKept(qs[born[b].parent].filters, born[b].kwargs[1].k,
                                  qs[c].filters)

\* two filter() clones of a cursor that has another filter entry, made with
\* different values for the same key
C1_Witness ==
    \E b, c \in 1..Len(qs) :
        /\ Siblings(b, c)
        /\ born[b].kwargs[1].v # born[c].kwargs[1].v
        /\ \E j \in 1..Len(qs[born[b].parent].filters) :
              qs[born[b].parent].filters[j].k # born[b].kwargs[1].k

\* C2: each of search, filter, exclude, order_by, facet, suggest, extra and
\* all that returns hands back a new cursor object, leaves the query state
\* and the result cache of the receiver unchanged, and the clone's query
\* state differs from the receiver's only in the fields the call sets.
C2_ChainingClones ==
    [][(last'.op \in CloneOps /\ last'.raised = "") =>
          /\ Len(qs') = Len(qs) + 1
          /\ last'.ret = Len(qs')
          /\ last'.ret # last'.self
          /\ \A f \in QueryFields \cup {"_result_cache"} :
                qs'[last'.self][f] = qs[last'.self][f]
          /\ \A f \in QueryFields \ SetBy(last'.op) :
                qs'[last'.ret][f] = qs[last'.self][f]]_vars

\* order_by() on an evaluated cursor returned a clone with another ordering
C2_Witness ==
    /\ last.op = "order_by"
    /\ last.ret # last.self
    /\ is_evaluated(qs[last.self])
    /\ qs[last.ret].ordering # qs[last.self].ordering

\* C3: cache reuse.  Of two terminal operations in a row on one cursor the
\* second sends no request to the backend, whatever the number of matching
\* documents.
C3_CacheReuse ==
    [][(/\ last.op \in TerminalOps
        /\ last'.op \in TerminalOps
        /\ last'.self = last.self) => last'.reqs = <<>>]_vars

\* C4: lazy evaluation.  No chaining call sends a request; a search request
\* comes only from a terminal operation, indexing or slicing (also the one
\* in __str__), count() in more-like-this mode, or complete(); a count
\* request comes only from count().
C4_LazyEvaluation ==
    /\ last.op \in ChainingOps => last.reqs = <<>>
    /\ Sent("search") # {} =>
          \/ last.op \in TerminalOps \cup {"__getitem__", "__str__", "complete"}
          \/ last.op \in {"count", "__nonzero__"} /\ qs[last.self].mode = MODE_MLT
    /\ Sent("count") # {} => last.op \in {"count", "__nonzero__"}

\* count() on a clone in more-like-this mode sent a search request
C4_Witness ==
    /\ last.op = "count"
    /\ qs[last.self].mode = MODE_MLT
    /\ born[last.self].op \in CloneOps
    /\ Sent("search") # {}

\* C4 as the specification states it: a search request comes only from a
\* terminal operation, indexing or slicing, or count() in more-like-this mode.
C4_AsStated ==
    /\ last.op \in ChainingOps => last.reqs = <<>>
    /\ Sent("search") # {} =>
          \/ last.op \in TerminalOps \cup {"__getitem__", "__str__"}
          \/ last.op \in {"count", "__nonzero__"} /\ qs[last.self].mode = MODE_MLT
    /\ Sent("count") # {} => last.op \in {"count", "__nonzero__"}

\* the rows the backend returns for the current query state of a cursor
RowsNow(c) ==
    Let(es_search(SearchParams(c)).hits, LAMBDA hits :
        [j \in 1..Len(hits) |-> Row(hits[j], c._deserialize)])

\* C5: the cached rows of an evaluated cursor are the rows the backend
\* returns for the cursor's current query state.
C5_EvaluatedStateFixed ==
    \A i \in 1..Len(qs) : is_evaluated(qs[i]) => qs[i]._result_cache = RowsNow(qs[i])

\* C6: right after a cloning call on an evaluated cursor the returned cursor
\* has no cached rows, no total, no facets, no suggestions, no backend
\* response and no max score.
C6_CloneStartsEmpty ==
    (last.op \in CloneOps /\ last.raised = "" /\ is_evaluated(qs[last.self])) =>
        /\ qs[last.ret]._result_cache = <<>>
        /\ qs[last.ret]._total = None
        /\ qs[last.ret]._facets = None
        /\ qs[last.ret]._suggestions = None
        /\ qs[last.ret]._response = None
        /\ qs[last.ret]._max_score = None

\* C7: deserialize() returns a new cursor object and leaves the deserialize
\* flag and the result cache of the receiver unchanged.
C7_DeserializeClones ==
    [][last'.op = "deserialize" =>
          /\ Len(qs') = Len(qs) + 1
          /\ last'.ret = Len(qs')
          /\ last'.ret # last'.self
          /\ qs'[last'.ret]._deserialize
          /\ qs'[last'.self]._deserialize = qs[last'.self]._deserialize
          /\ qs'[last'.self]._result_cache = qs[last'.self]._result_cache]_vars

\* C8: mlt(id) returns the cursor it was called on and creates no object;
\* the cursor is in more-like-this mode with the id among its more-like-this
\* parameters, and its filters, query text, ordering, window and result
\* cache are as they were.
C8_MltInPlace ==
    [][last'.op = "mlt" =>
          /\ Len(qs') = Len(qs)
          /\ last'.ret = last'.self
          /\ qs'[last'.self].mode = MODE_MLT
          /\ qs'[last'.self].mlt_kwargs # None
          /\ DictHas(qs'[last'.self].mlt_kwargs[1], "id")
          /\ DictValue(qs'[last'.self].mlt_kwargs[1], "id") = MltId
          /\ \A f \in {"filters", "_query", "ordering", "_start", "_stop",
                       "_result_cache"} :
                qs'[last'.self][f] = qs[last'.self][f]]_vars

\* mlt() on an evaluated cursor in search mode that has a filter
C8_Witness ==
    /\ last.op = "mlt"
    /\ last.ret = last.self
    /\ qs[last.self].mode = MODE_MLT
    /\ qs[last.self].filters # <<>>
    /\ is_evaluated(qs[last.self])

\* C9: every index or slice access sends exactly one search request, and
\* an iteration or membership test that follows such an access on the same
\* cursor sends none.
C9_IndexingRequests ==
    [][/\ last'.op = "__getitem__" =>
              Len(last'.reqs) = 1 /\ last'.reqs[1].api = "search"
       /\ (/\ last.op = "__getitem__"
           /\ last'.op \in {"__iter__", "__contains__"}
           /\ last'.self = last.self) => last'.reqs = <<>>]_vars

\* C10: count() on a cursor that has a total returns it without a request,
\* whatever the total; otherwise in search mode it sends one count request
\* built from the compiled query and keeps the result cache empty, and in
\* more-like-this mode it sends one search request and returns the total of
\* that response.
C10_Count ==
    [][last'.op = "count" =>
          IF qs[last'.self]._total # None
          THEN /\ last'.reqs = <<>>
               /\ last'.num = qs[last'.self]._total[1]
          ELSE IF qs[last'.self].mode = MODE_SEARCH
          THEN /\ last'.reqs = <<CountParams(qs[last'.self])>>
               /\ last'.num = es_count(CountParams(qs[last'.self]))
               /\ qs'[last'.self]._result_cache = <<>>
          ELSE /\ last'.reqs = <<SearchParams(qs[last'.self])>>
               /\ last'.num = es_search(SearchParams(qs[last'.self])).total]_vars

\* count() and len(list(cursor)), called one after the other on qs[last.self]
CountThenLen ==
    \/ last.op = "count" /\ last'.op = "__len__"
    \/ last.op = "__len__" /\ last'.op = "count"

\* C11: count consistency.  On a cursor in search mode, count() and
\* len(list(cursor)) called one after the other, in either order, return
\* the same number.
C11_CountConsistency ==
    [][(/\ CountThenLen
        /\ last'.self = last.self
        /\ last.raised = "" /\ last'.raised = ""
        /\ qs[last.self].mode = MODE_SEARCH) => last'.num = last.num]_vars

(***************************************************************************)
(* Pagination: the application slices and indexes cursors it has filtered  *)
(* and ordered, with every window over the index and one past it.           *)
(***************************************************************************)
\* qs[s:e] with 0 <= s <= e, and qs[:e]
PageSlices ==
    {Slice(Some(p[1]), Some(p[2])) :
        p \in {w \in (0..NDocs + 1) \X (0..NDocs + 1) : w[1] <= w[2]}}
    \cup {Slice(None, Some(e)) : e \in 0..NDocs + 1}

\* qs[i]
PageInts == {IntIndex(i) : i \in 0..NDocs + 1}

Paginate == \E i \in Receivers : \E ndx \in PageSlices \cup PageInts :
            \E o \in {__getitem__(qs[i], ndx)} : Call(i, "__getitem__", ndx, o)

NextPage == Filter \/ OrderBy \/ Mlt \/ Paginate

SpecPage == Init /\ [][NextPage]_vars

\* the rows of the full, unsliced result of a cursor's query
FullRows(c) == RowsNow([c EXCEPT !._start = 0, !._stop = None])

\* the start offset a slice asks for
SliceStart(ndx) == IF ndx.start = None THEN 0 ELSE ndx.start[1]

\* C12: pagination.  qs[s:e] with 0 <= s <= e returns the rows at offsets
\* [s, e) of the full result of the cursor's query, min(e-s, T-s) of them
\* when s <= T; its request carries an offset exactly when s # 0 and, the
\* stop being set, a size.
C12_Pagination ==
    [][(last'.op = "__getitem__" /\ last'.args.type = "slice") =>
          /\ last'.rows =
                SubSeq(FullRows(qs[last'.self]), SliceStart(last'.args) + 1,
                       Min(last'.args.stop[1], Len(FullRows(qs[last'.self]))))
          /\ SliceStart(last'.args) <= Len(FullRows(qs[last'.self])) =>
                Len(last'.rows) =
                    Min(last'.args.stop[1] - SliceStart(last'.args),
                        Len(FullRows(qs[last'.self])) - SliceStart(last'.args))
          /\ Len(last'.reqs) = 1
          /\ (last'.reqs[1].from # None \/ last'.reqs[1].from_ # None)
                <=> SliceStart(last'.args) # 0
          /\ last'.reqs[1].size # None]_vars

\* C13: single-index access.  qs[i] with 0 <= i < T returns the row at
\* offset i of the full ordered result of the cursor's query; with i >= T
\* it raises IndexError and returns no row.
C13_SingleIndex ==
    [][(last'.op = "__getitem__" /\ last'.args.type = "int") =>
          IF last'.args.start[1] < Len(FullRows(qs[last'.self]))
          THEN /\ last'.raised = ""
               /\ last'.rows = <<FullRows(qs[last'.self])[last'.args.start[1] + 1]>>
          ELSE /\ last'.raised = "IndexError"
               /\ last'.rows = <<>>]_vars

\* qs[i] with i > 0 returned a row of a cursor ordered by order_by()
C13_Witness ==
    /\ last.op = "__getitem__"
    /\ last.args.type = "int"
    /\ last.args.start[1] > 0
    /\ last.raised = ""
    /\ last.rows # <<>>
    /\ qs[last.self].ordering # None

\* qs[i] past the last row raised IndexError
C13_WitnessIndexError ==
    /\ last.op = "__getitem__"
    /\ last.args.type = "int"
    /\ last.raised = "IndexError"

(***************************************************************************)
(* Lookups: the application filters the model's cursor with one lookup and *)
(* chains exclude() calls, over every operator, a one-segment and a        *)
(* two-segment field path.                                                  *)
(***************************************************************************)
\* id and a__b, as the words of a lookup
LookupFields == {<<<<"id">>>>, <<<<"a">>, <<"b">>>>}

\* fields tested for presence: also groups, which the mapping declares nested
ExistenceFields == LookupFields \cup {<<<<"groups">>>>}

ComparisonOps == {"gt", "gte", "lt", "lte"}

LookupValues == {1, 2}

LookupCalls ==
    {Kw(Append(f, <<op>>), <<x>>) :
        f \in LookupFields, op \in ComparisonOps, x \in LookupValues}
    \cup {Kw(Append(f, <<"range">>), <<p[1], p[2]>>) :
        f \in LookupFields, p \in {w \in LookupValues \X LookupValues : w[1] <= w[2]}}
    \cup {Kw(Append(f, <<op>>), <<v>>) :
        f \in ExistenceFields, op \in {"isnull", "exists"}, v \in {0, 1}}
    \cup {Kw(f \o w, <<1>>) :
        f \in LookupFields, w \in {<<>>, <<<<"must_not">>>>, <<<<"should">>>>}}

\* Model.es.filter(**lookup): the first call of the chain
FilterLookup == \E i \in Receivers : \E kw \in LookupCalls :
            /\ Len(qs) = 1
            /\ \E o \in {filter(qs[i], kw)} : Call(i, "filter", kw, o)

\* exclude(**lookup) on any cursor of the chain
ExcludeLookup == \E i \in Receivers : \E kw \in LookupCalls :
            /\ Len(qs) <= MaxLookups
            /\ \E o \in {exclude(qs[i], kw)} : Call(i, "exclude", kw, o)

NextLookup == FilterLookup \/ ExcludeLookup

SpecLookup == Init /\ [][NextLookup]_vars

\* the documents a cursor's query selects
ResultSet(c) == Matching(SearchParams(c))

\* the cursor filter(**kwargs) returns
Filtered(c, kwargs) == filter(c, kwargs).new[1]

\* the words of a lookup before its operator, and its operator word
LookupPath(kw) == SubSeq(kw[1].k, 1, Len(kw[1].k) - 1)

LookupOp(kw) == kw[1].k[Len(kw[1].k)][1]

\* f__op=X of a lookup with op replaced
WithOp(kw, op) == Kw(Append(LookupPath(kw), <<op>>), kw[1].v)

\* C14: exclude inversion.  A.exclude(f__op=X) for a comparison op has the
\* filters and the result set of A.filter(f__inv=X), inv being lte, lt, gte,
\* gt for gt, gte, lt, lte, for one-segment and multi-segment f; and on a
\* cursor without filters the result sets of filter(f__op=X) and
\* exclude(f__op=X) are disjoint and together hold every document.
C14_ExcludeInversion ==
    [][(/\ last'.op = "exclude"
        /\ IsOperatorWord(last'.args[1].k[Len(last'.args[1].k)])
        /\ LookupOp(last'.args) \in ComparisonOps) =>
          /\ qs'[last'.ret].filters =
                Filtered(qs[last'.self],
                         WithOp(last'.args, inverse_map(LookupOp(last'.args)))).filters
          /\ ResultSet(qs'[last'.ret]) =
                ResultSet(Filtered(qs[last'.self],
                          WithOp(last'.args, inverse_map(LookupOp(last'.args)))))
          /\ qs[last'.self].filters = <<>> =>
                /\ ResultSet(qs'[last'.ret])
                       \cap ResultSet(Filtered(qs[last'.self], last'.args)) = {}
                /\ ResultSet(qs'[last'.ret])
                       \cup ResultSet(Filtered(qs[last'.self], last'.args)) = Docs]_vars

\* the last call carried a lookup whose last word is the operator op
LastLookupIs(op) ==
    /\ last.args # <<>>
    /\ last.args[1].k[Len(last.args[1].k)] = <<op>>

\* C15: excluding a range lookup is rejected.  exclude(f__range=(a, b))
\* raises NotImplementedError at the call, returns no cursor and adds nothing
\* to the filters of any cursor.
C15_ExcludeRangeRejected ==
    [][(last'.op = "exclude" /\ LastLookupIs("range")') =>
          /\ last'.raised = "NotImplementedError"
          /\ last'.ret = 0
          /\ Len(qs') = Len(qs)
          /\ \A i \in 1..Len(qs) : qs'[i].filters = qs[i].filters]_vars

\* not v, for a boolean lookup value
PyNot(value) == IF ValueTruthy(value) THEN <<0>> ELSE <<1>>

\* the bucket of the bool query a fragment's clause sits in, inside the
\* nested query when the field is nested
InnerBucket(frag) ==
    IF frag.clause.nested = None THEN frag.bucket ELSE frag.clause.nested[1]

\* C16: isnull / exists duality.  filter(f__isnull=v) and
\* filter(f__exists=not v) compile to the same existence clause in the same
\* bucket (must_not for isnull=True, must for isnull=False) and select the
\* same documents; exclude(f__isnull=v) selects the documents of
\* filter(f__isnull=not v).
C16_IsnullExistsDuality ==
    [][(/\ last'.op \in {"filter", "exclude"}
        /\ LastLookupIs("isnull")') =>
          IF last'.op = "filter"
          THEN /\ FilterFragment(last'.args[1].k, last'.args[1].v)
                    = FilterFragment(WithOp(last'.args, "exists")[1].k,
                                     PyNot(last'.args[1].v))
               /\ FilterFragment(last'.args[1].k, last'.args[1].v).clause.kind = "exists"
               /\ InnerBucket(FilterFragment(last'.args[1].k, last'.args[1].v))
                    = IF ValueTruthy(last'.args[1].v) THEN "must_not" ELSE "must"
               /\ ResultSet(qs'[last'.ret])
                    = ResultSet(Filtered(qs[last'.self],
                                  Kw(WithOp(last'.args, "exists")[1].k,
                                     PyNot(last'.args[1].v))))
          ELSE ResultSet(qs'[last'.ret])
                    = ResultSet(Filtered(qs[last'.self],
                                  Kw(last'.args[1].k, PyNot(last'.args[1].v))))]_vars

\* exclude(id__isnull=...) on a cursor that filter(f__isnull=...) returned
C16_Witness ==
    /\ last.op = "exclude" /\ LastLookupIs("isnull")
    /\ LookupPath(last.args) = <<<<"id">>>>
    /\ last.ret # 0
    /\ born[last.self].op = "filter"
    /\ born[last.self].kwargs[1].k[Len(born[last.self].kwargs[1].k)] = <<"isnull">>
    /\ ResultSet(qs[last.ret]) # ResultSet(qs[last.self])

\* the documents whose id stands in the relation a lookup names
Selected(operator, value) ==
    CASE operator = "gt" -> {d \in Docs : d > value[1]}
      [] operator = "gte" -> {d \in Docs : d >= value[1]}
      [] operator = "lt" -> {d \in Docs : d < value[1]}
      [] operator = "lte" -> {d \in Docs : d <= value[1]}
      [] operator = "range" -> {d \in Docs : value[1] <= d /\ d <= value[2]}

\* C17: comparison and range filters.  On the numeric field id,
\* filter(id__gt=X) selects exactly the documents with id > X, gte those
\* with id >= X, lt those with id < X, lte those with id <= X and
\* filter(id__range=(a, b)) those with a <= id <= b; the query compiled for
\* it holds one range clause, in the must bucket.
C17_ComparisonFilters ==
    [][(/\ last'.op = "filter"
        /\ LookupPath(last'.args) = <<<<"id">>>>
        /\ \E op \in ComparisonOps \cup {"range"} : LastLookupIs(op)') =>
          /\ ResultSet(qs'[last'.ret]) = Selected(LookupOp(last'.args), last'.args[1].v)
          /\ Len(make_search_body(qs'[last'.ret]).must) = 1
          /\ make_search_body(qs'[last'.ret]).must[1].kind = "range"
          /\ make_search_body(qs'[last'.ret]).must[1].field = <<"id">>
          /\ make_search_body(qs'[last'.ret]).must[1].nested = None
          /\ make_search_body(qs'[last'.ret]).must_not = <<>>
          /\ make_search_body(qs'[last'.ret]).should = <<>>]_vars

\* a range filter that selects some documents and leaves others out
C17_Witness ==
    /\ last.op = "filter" /\ LastLookupIs("range")
    /\ LookupPath(last.args) = <<<<"id">>>>
    /\ last.ret # 0
    /\ ResultSet(qs[last.ret]) \notin {{}, Docs}

\* every entry of filters a is in filters b with the same value
KeptIn(a, b) ==
    \A n \in 1..Len(a) : DictHas(b, a[n].k) /\ DictValue(b, a[n].k) = a[n].v

\* C18: exclude keeps the constraints of its receiver.  Whenever A.exclude(L)
\* returns a cursor, every entry of A.filters is in its filters with the same
\* value and its result set is a subset of the result set of A.
C18_ExcludeKeepsConstraints ==
    [][(last'.op = "exclude" /\ last'.ret # 0) =>
          /\ KeptIn(qs[last'.self].filters, qs'[last'.ret].filters)
          /\ ResultSet(qs'[last'.ret]) \subseteq ResultSet(qs[last'.self])]_vars

(***************************************************************************)
(* Searches: the application chains search() calls with zero, one or two   *)
(* positional arguments and zero or one field query.                        *)
(***************************************************************************)
SearchArgs == {<<>>, <<"q">>, <<"r">>, <<"">>, <<"q", "r">>}

SearchKwargs ==
    {<<>>, Kw(<<<<"id">>>>, <<1>>), Kw(<<<<"id">>>>, <<2>>),
     Kw(<<<<"first_name">>>>, <<1>>)}

SearchAny == \E i \in Receivers : \E args \in SearchArgs : \E kwargs \in SearchKwargs :
            \E o \in {search(qs[i], args, kwargs)} :
                Call(i, "search", <<args, kwargs>>, o)

NextSearch == SearchAny

SpecSearch == Init /\ [][NextSearch]_vars

\* b is a updated with other: the entries of other, and the entries of a
\* under the keys other does not hold
UpdatedWith(b, a, other) ==
    /\ DictKeys(b) = DictKeys(a) \cup DictKeys(other)
    /\ \A key \in DictKeys(b) :
          DictValue(b, key) = IF DictHas(other, key) THEN DictValue(other, key)
                              ELSE DictValue(a, key)

\* C19: search() argument validation.  search() without any argument or with
\* more than one positional argument raises TypeError and leaves the
\* receiver as it was; every other call returns a new cursor whose query
\* text is the positional argument when there is one, the receiver's text
\* otherwise, and whose filters are the receiver's updated with the keyword
\* arguments.
C19_SearchArguments ==
    [][(last'.op = "search") =>
          IF \/ last'.args[1] = <<>> /\ last'.args[2] = <<>>
             \/ Len(last'.args[1]) > 1
          THEN /\ last'.raised = "TypeError"
               /\ last'.ret = 0
               /\ qs' = qs
          ELSE /\ last'.raised = ""
               /\ last'.ret = Len(qs) + 1
               /\ Len(qs') = Len(qs) + 1
               /\ qs'[last'.self] = qs[last'.self]
               /\ qs'[last'.ret]._query =
                     IF Len(last'.args[1]) = 1 THEN last'.args[1][1]
                     ELSE qs[last'.self]._query
               /\ UpdatedWith(qs'[last'.ret].filters, qs[last'.self].filters,
                              last'.args[2])]_vars

\* search("r", id=2) on a cursor that searches another text and filters
\* id = 1 and first_name
C19_Witness ==
    /\ last.op = "search" /\ last.ret # 0
    /\ Len(last.args[1]) = 1 /\ last.args[2] # <<>>
    /\ qs[last.self]._query \notin {"", last.args[1][1]}
    /\ Len(qs[last.self].filters) = 2
    /\ DictHas(qs[last.self].filters, last.args[2][1].k)
    /\ DictValue(qs[last.self].filters, last.args[2][1].k) # last.args[2][1].v

\* search() raised on a cursor that carries a query text and filters
C19_WitnessTypeError ==
    /\ last.op = "search" /\ last.raised = "TypeError"
    /\ qs[last.self]._query # "" /\ qs[last.self].filters # <<>>

(***************************************************************************)
(* Fetches: the application filters by identifier, evaluates or slices a   *)
(* cursor and calls get() with or without an identifier; 0 is an           *)
(* identifier no document of the index carries.                             *)
(***************************************************************************)
PkKeys == {<<<<"pk">>>>, <<<<"id">>>>}

Identifiers == 0..NDocs

FilterPk == \E i \in Receivers : \E key \in PkKeys : \E v \in {0, 1} :
            \E o \in {filter(qs[i], Kw(key, <<v>>))} :
                Call(i, "filter", Kw(key, <<v>>), o)

GetAny == \E i \in Receivers :
            \E kw \in {<<>>} \cup {Kw(key, <<v>>) : key \in PkKeys, v \in Identifiers} :
            \E o \in {get(qs[i], kw)} : Call(i, "get", kw, o)

NextGet == FilterPk \/ GetAny \/ Iter \/ GetItem

SpecGet == Init /\ [][NextGet]_vars

\* the identifier get(**kwargs) is asked for: pk or id of the arguments,
\* otherwise pk or id of the cursor's filters, None when there is none
Resolvable(c, kwargs) ==
    IF DictHas(kwargs, <<<<"pk">>>>) THEN DictValue(kwargs, <<<<"pk">>>>)
    ELSE IF DictHas(kwargs, <<<<"id">>>>) THEN DictValue(kwargs, <<<<"id">>>>)
    ELSE IF DictHas(c.filters, <<<<"pk">>>>) THEN DictValue(c.filters, <<<<"pk">>>>)
    ELSE IF DictHas(c.filters, <<<<"id">>>>) THEN DictValue(c.filters, <<<<"id">>>>)
    ELSE None

\* C20: get().  With an identifier in the arguments or else in the cursor's
\* filters, get() sends exactly one request, a document fetch for that
\* identifier, and leaves the filters, the window and the result cache of
\* the cursor as they were; without one it raises AttributeError before any
\* request.  The identifier may be any value, 0 included.
C20_Get ==
    [][(last'.op = "get") =>
          IF Resolvable(qs[last'.self], last'.args) = None
          THEN /\ last'.raised = "AttributeError"
               /\ last'.reqs = <<>>
               /\ qs' = qs
          ELSE /\ Len(last'.reqs) = 1
               /\ last'.reqs[1].api = "get"
               /\ last'.reqs[1].id = Resolvable(qs[last'.self], last'.args)
               /\ Len(qs') = Len(qs)
               /\ qs'[last'.self].filters = qs[last'.self].filters
               /\ qs'[last'.self]._start = qs[last'.self]._start
               /\ qs'[last'.self]._stop = qs[last'.self]._stop
               /\ qs'[last'.self]._result_cache = qs[last'.self]._result_cache]_vars

(***************************************************************************)
(* Database-style calls: the application builds, evaluates or slices a     *)
(* cursor and then calls update(), delete() or prefetch_related().          *)
(***************************************************************************)
NextReadOnly ==
    Filter \/ Mlt \/ Iter \/ GetItem \/ Update \/ Delete \/ PrefetchRelated

SpecReadOnly == Init /\ [][NextReadOnly]_vars

DbOps == {"update", "delete", "prefetch_related"}

\* C21: the cursor is read-only.  update(), delete() and prefetch_related()
\* raise NotImplementedError in every cursor state, send no request and
\* change no field of any cursor.
C21_ReadOnly ==
    [][(last'.op \in DbOps) =>
          /\ last'.raised = "NotImplementedError"
          /\ last'.reqs = <<>>
          /\ last'.ret = 0
          /\ qs' = qs]_vars

\* delete() on an evaluated cursor that holds filters and rows
C21_Witness ==
    /\ last.op = "delete" /\ last.raised = "NotImplementedError"
    /\ qs[last.self].filters # <<>>
    /\ qs[last.self]._result_cache # <<>>

(***************************************************************************)
(* Lookup keys: the application filters the model's cursor by one lookup   *)
(* of up to MaxWords segments, field names and operator names mixed.        *)
(***************************************************************************)
\* gtt is a misspelt operator
Segments == {"id", "a", "gt", "gtt", "should", "range", "isnull"}

RECURSIVE LookupsOf(_)
LookupsOf(n) ==
    IF n = 0 THEN {<<>>}
    ELSE {Append(l, <<w>>) : l \in LookupsOf(n - 1), w \in Segments}

SegmentLookups == UNION {LookupsOf(n) : n \in 1..MaxWords}

\* the value passed with a lookup: a pair for a range, 1 otherwise
SegmentValue(l) == IF l[Len(l)] = <<"range">> THEN <<1, 2>> ELSE <<1>>

\* Model.es.filter(**{lookup: value})
FilterSegments == \E i \in Receivers : \E l \in SegmentLookups :
            /\ Len(qs) = 1
            /\ \E o \in {filter(qs[i], Kw(l, SegmentValue(l)))} :
                    Call(i, "filter", Kw(l, SegmentValue(l)), o)

\* Model.es.exclude(**{lookup: value})
ExcludeSegments == \E i \in Receivers : \E l \in SegmentLookups :
            /\ Len(qs) = 1
            /\ \E o \in {exclude(qs[i], Kw(l, SegmentValue(l)))} :
                    Call(i, "exclude", Kw(l, SegmentValue(l)), o)

NextParse == FilterSegments \/ ExcludeSegments

SpecParse == Init /\ [][NextParse]_vars

Vocabulary ==
    {"must", "must_not", "should", "range", "gt", "lt", "gte", "lte",
     "exists", "isnull"}

\* the key of the lookup the last call carried, and its last segment
LastKey == last.args[1].k

LastSegment == LastKey[Len(LastKey)][1]

\* C22: lookup parsing.  For a lookup w1__...__wn sanitize_lookup returns the
\* operator wn when wn is in the vocabulary and must otherwise, and as field
\* path the segments joined with dots with only a trailing operator segment
\* removed, also when an earlier segment is spelled like an operator.
C22_LookupParsing ==
    [][(last'.op = "filter" /\ last'.ret # 0) =>
          /\ sanitize_lookup(LastKey').operator =
                IF LastSegment' \in Vocabulary THEN LastSegment' ELSE "must"
          /\ sanitize_lookup(LastKey').field =
                IF LastSegment' \in Vocabulary
                THEN JoinDot(SubSeq(LastKey', 1, Len(LastKey') - 1))
                ELSE JoinDot(LastKey')]_vars

\* C23: more-like-this requests.  A request sent for a cursor in
\* MORE_LIKE_THIS mode carries the similarity request only: no compiled
\* boolean query, no sort, no aggregations, no offset and no size.
C23_MltRequestOnly ==
    \A n \in 1..Len(last.reqs) :
        last.reqs[n].more_like_this # None =>
            /\ last.reqs[n].body.query = None
            /\ last.reqs[n].body.sort = None
            /\ last.reqs[n].body.aggs = None
            /\ last.reqs[n].from = None
            /\ last.reqs[n].from_ = None
            /\ last.reqs[n].size = None

(***************************************************************************)
(* Extra bodies: the application orders, facets and filters cursors, gives *)
(* them an extra body and evaluates them.                                   *)
(***************************************************************************)
\* the n-th extra body: {}, a highlight request, a query of its own, a sort
\* of its own with a highlight request
ExtraBody(n) ==
    CASE n = 1 -> <<>>
      [] n = 2 -> <<[k |-> "highlight", v |-> "fields"]>>
      [] n = 3 ->
            <<[k |-> "query",
               v |-> [EmptyBool EXCEPT
                        !.must = <<Clause("term", <<"id">>, <<>>, <<2>>)>>]]>>
      [] n = 4 ->
            <<[k |-> "sort", v |-> <<[field |-> <<"id">>, order |-> "asc"]>>],
              [k |-> "highlight", v |-> "fields"]>>

ExtraAny == \E i \in Receivers : \E n \in 1..4 :
            \E o \in {extra(qs[i], ExtraBody(n))} : Call(i, "extra", ExtraBody(n), o)

NextExtra == ExtraAny \/ OrderBy \/ Facet \/ Filter \/ Iter \/ Len_

SpecExtra == Init /\ [][NextExtra]_vars

\* C24: the extra body is applied last.  The body of the request an
\* evaluation sends is the compiled body with every key of the cursor's
\* extra body added or replaced by the extra body's value, the other keys
\* being the compiled ones; extra() changes nothing on its receiver.
C24_ExtraBodyLast ==
    [][/\ (last'.op \in {"__iter__", "__len__"} /\ last'.reqs # <<>>) =>
            \A key \in BodyKeys :
                last'.reqs[1].body[key] =
                    IF /\ qs[last'.self].extra_body # None
                       /\ DictHas(qs[last'.self].extra_body[1], key)
                    THEN Some(DictValue(qs[last'.self].extra_body[1], key))
                    ELSE CompiledBody(qs[last'.self])[key]
       /\ (last'.op = "extra") =>
            /\ qs'[last'.self] = qs[last'.self]
            /\ last'.ret = Len(qs) + 1
            /\ qs'[last'.ret].extra_body = Some(last'.args)]_vars

\* an evaluation whose extra body replaces the sort the ordering compiled
C24_Witness ==
    /\ last.op = "__iter__" /\ last.reqs # <<>>
    /\ qs[last.self].ordering # None
    /\ qs[last.self].extra_body # None
    /\ DictHas(qs[last.self].extra_body[1], "sort")
    /\ last.reqs[1].body.sort = Some(DictValue(qs[last.self].extra_body[1], "sort"))
    /\ last.reqs[1].body.sort # Some(Sort(qs[last.self]))

(***************************************************************************)
(* Compilation: the application searches a text and filters by lookups of  *)
(* every bucket, on plain fields and on the nested field groups.            *)
(***************************************************************************)
CompileCalls ==
    {Kw(<<<<"id">>>>, <<1>>),
     Kw(<<<<"id">>, <<"must_not">>>>, <<1>>),
     Kw(<<<<"id">>, <<"should">>>>, <<2>>),
     Kw(<<<<"id">>, <<"gt">>>>, <<1>>),
     Kw(<<<<"id">>, <<"lte">>>>, <<2>>),
     Kw(<<<<"id">>, <<"range">>>>, <<1, 2>>),
     Kw(<<<<"a">>, <<"b">>, <<"isnull">>>>, <<1>>),
     Kw(<<<<"id">>, <<"exists">>>>, <<1>>),
     Kw(<<<<"first_name">>>>, <<1>>),
     Kw(<<<<"groups">>>>, <<1>>),
     Kw(<<<<"groups">>, <<"must_not">>>>, <<1>>)}

\* the calls are chained: each one is made on the cursor the last one returned
FilterCompile == \E i \in Receivers : \E kw \in CompileCalls :
            /\ i = Len(qs)
            /\ \E o \in {filter(qs[i], kw)} : Call(i, "filter", kw, o)

SearchText == \E i \in Receivers : \E q \in {"q", ""} :
            /\ i = Len(qs)
            /\ \E o \in {search(qs[i], <<q>>, <<>>)} :
                    Call(i, "search", <<<<q>>, <<>>>>, o)

NextCompile == FilterCompile \/ SearchText

SpecCompile == Init /\ [][NextCompile]_vars

Buckets == {"must", "must_not", "should"}

\* the bucket the operator of a filter entry dictates
Dictated(e) ==
    LET operator == IF IsOperatorWord(e.k[Len(e.k)]) THEN e.k[Len(e.k)][1] ELSE "must"
    IN  CASE operator \in Buckets -> operator
          [] operator \in ComparisonOps \cup {"range"} -> "must"
          [] operator = "isnull" -> IF ValueTruthy(e.v) THEN "must_not" ELSE "must"
          [] operator = "exists" -> IF ValueTruthy(e.v) THEN "must" ELSE "must_not"

\* the field paths of the clauses a bucket holds for filters, in order
FilterClauses(body, bucket) ==
    SelectSeq(body[bucket], LAMBDA cl : cl.kind \notin {"match_all", "multi_match"})

FieldsOf(clauses) == [n \in 1..Len(clauses) |-> clauses[n].field]

\* the field paths of the filter entries that belong to a bucket, in order
EntryFields(entries) ==
    [n \in 1..Len(entries) |-> sanitize_lookup(entries[n].k).field]

\* the text clause is in must, once, exactly when there is a query text
TextClauseOnce(c) ==
    /\ Len(SelectSeq(make_search_body(c).must, LAMBDA cl : cl.kind = "multi_match"))
          = IF c._query # "" THEN 1 ELSE 0
    /\ \A b \in {"must_not", "should"} :
          \A n \in 1..Len(make_search_body(c)[b]) :
              make_search_body(c)[b][n].kind # "multi_match"

\* the field of a filter entry is declared nested by the mapping
IsNestedEntry(e) == MappingType(FirstSegment(sanitize_lookup(e.k).field)) = "nested"

\* C25 as stated: every filter entry has one clause in the bucket its
\* operator dictates, whatever its field
C25_AsStated ==
    \A i \in 1..Len(qs) :
        /\ TextClauseOnce(qs[i])
        /\ \A b \in Buckets :
              FieldsOf(FilterClauses(make_search_body(qs[i]), b))
                = EntryFields(SelectSeq(qs[i].filters, LAMBDA e : Dictated(e) = b))

\* C25: clause merging.  The compiled boolean body holds one clause per
\* filter entry, in entry order and none overwriting another: for a field
\* that is not nested in the bucket the operator dictates, for a nested
\* field in must, as a nested query whose inner bucket is the dictated one;
\* and one multi-field match clause in must exactly when the query text is
\* not empty.
C25_ClauseMerging ==
    \A i \in 1..Len(qs) :
        /\ TextClauseOnce(qs[i])
        /\ \A b \in Buckets :
              /\ FieldsOf(FilterClauses(make_search_body(qs[i]), b))
                    = EntryFields(SelectSeq(qs[i].filters, LAMBDA e :
                          IF IsNestedEntry(e) THEN b = "must" ELSE Dictated(e) = b))
              /\ \A n \in 1..Len(FilterClauses(make_search_body(qs[i]), b)) :
                    FilterClauses(make_search_body(qs[i]), b)[n].nested # None =>
                        \E e \in {qs[i].filters[m] : m \in 1..Len(qs[i].filters)} :
                            /\ IsNestedEntry(e)
                            /\ FilterClauses(make_search_body(qs[i]), b)[n].nested
                                  = Some(Dictated(e))

\* a cursor with a query text, two filters in one bucket and a must_not
\* filter on the nested field
C25_Witness ==
    \E i \in 1..Len(qs) :
        /\ qs[i]._query # ""
        /\ Len(FilterClauses(make_search_body(qs[i]), "must")) = 2
        /\ \E n \in 1..Len(qs[i].filters) :
              IsNestedEntry(qs[i].filters[n]) /\ Dictated(qs[i].filters[n]) = "must_not"

\* every clause of a compiled boolean body
AllClauses(body) == body.must \o body.must_not \o body.should

HasKind(body, kind) ==
    \E n \in 1..Len(AllClauses(body)) : AllClauses(body)[n].kind = kind

\* C26: seeding of the compiled body.  The boolean body holds a match_all
\* clause exactly when the query text is empty and there are no filters, the
\* multi-field match clause exactly when the query text is not empty, and it
\* always holds at least one clause.
C26_Seeding ==
    \A i \in 1..Len(qs) :
        /\ HasKind(make_search_body(qs[i]), "match_all")
              <=> (qs[i]._query = "" /\ qs[i].filters = <<>>)
        /\ HasKind(make_search_body(qs[i]), "multi_match") <=> qs[i]._query # ""
        /\ AllClauses(make_search_body(qs[i])) # <<>>

\* a cursor without query text whose only clause is a should clause
C26_Witness ==
    \E i \in 1..Len(qs) :
        /\ qs[i]._query = "" /\ born[i].op = "filter"
        /\ make_search_body(qs[i]).must = <<>>
        /\ make_search_body(qs[i]).must_not = <<>>
        /\ Len(make_search_body(qs[i]).should) = 1

(***************************************************************************)
(* Orderings: the application orders cursors by zero, one or two fields,   *)
(* filters, and evaluates or slices them.                                   *)
(***************************************************************************)
\* (), ('id',), ('-id',), ('id', '-first_name'), ('-id', 'first_name')
Orderings ==
    {<<>>, <<<<"id">>>>, <<<<"-", "id">>>>,
     <<<<"id">>, <<"-", "first_name">>>>, <<<<"-", "id">>, <<"first_name">>>>}

OrderAny == \E i \in Receivers : \E f \in Orderings :
            \E o \in {order_by(qs[i], f)} : Call(i, "order_by", f, o)

NextSort == OrderAny \/ Filter \/ Iter \/ GetItem

SpecSort == Init /\ [][NextSort]_vars

\* the sort entry of the ordering field f
SortEntry(f) ==
    IF f[1] = "-" THEN [field |-> Tail(f), order |-> "desc"]
    ELSE [field |-> f, order |-> "asc"]

NonDecreasing(rows) ==
    \A m, n \in 1..Len(rows) : m < n => rows[m].id <= rows[n].id

NonIncreasing(rows) ==
    \A m, n \in 1..Len(rows) : m < n => rows[m].id >= rows[n].id

\* C27: sort specification.  With a non-empty ordering the request of an
\* evaluation has one sort entry per field, in order, ascending for f and
\* descending on f for -f, and the score last; without ordering it has no
\* sort.  order_by(*fields) replaces the ordering, and the rows come in
\* non-decreasing id for ordering id, non-increasing id for -id.
C27_SortSpecification ==
    [][/\ (last'.op \in {"__iter__", "__getitem__"} /\ last'.reqs # <<>>) =>
            IF qs[last'.self].ordering # None /\ qs[last'.self].ordering[1] # <<>>
            THEN /\ last'.reqs[1].body.sort # None
                 /\ Len(last'.reqs[1].body.sort[1]) = Len(qs[last'.self].ordering[1]) + 1
                 /\ \A n \in 1..Len(qs[last'.self].ordering[1]) :
                       last'.reqs[1].body.sort[1][n]
                          = SortEntry(qs[last'.self].ordering[1][n])
                 /\ last'.reqs[1].body.sort[1][Len(qs[last'.self].ordering[1]) + 1].field
                       = <<"_score">>
                 /\ qs[last'.self].ordering[1][1] = <<"id">> => NonDecreasing(last'.rows)
                 /\ qs[last'.self].ordering[1][1] = <<"-", "id">> => NonIncreasing(last'.rows)
            ELSE last'.reqs[1].body.sort = None
       /\ (last'.op = "order_by") =>
            /\ last'.ret = Len(qs) + 1
            /\ qs'[last'.ret].ordering = Some(last'.args)
            /\ qs'[last'.self] = qs[last'.self]]_vars

\* rows in decreasing id from a cursor ordered by -id whose parent was
\* ordered by id
C27_Witness ==
    /\ last.op = "__iter__" /\ last.reqs # <<>>
    /\ qs[last.self].ordering = Some(<<<<"-", "id">>>>)
    /\ born[last.self].op = "order_by"
    /\ qs[born[last.self].parent].ordering = Some(<<<<"id">>>>)
    /\ Len(last.rows) >= 2
    /\ last.rows[1].id > last.rows[2].id

(***************************************************************************)
(* Threads: two threads share the heap.  Each derives a cursor from the    *)
(* common parent qs[1] by a chaining call and then works on the cursor it  *)
(* holds; calls of the two threads interleave.  A call touches only the    *)
(* attributes of its receiver and of the clone it creates, so it is taken  *)
(* as one step.  cur[t].alone is the cursor thread t would hold, and       *)
(* cur[t].rows, reqs, num what its last call would have given, had the     *)
(* other thread not run.                                                    *)
(***************************************************************************)
ThreadChainingOps == {"filter", "order_by", "deserialize"}

ThreadTerminalOps == {"__iter__", "__len__", "__getitem__"}

\* the calls a thread makes: filter(id__gt=1), order_by('-id'), deserialize(),
\* list(qs), len(qs), qs[:1]
Apply(op, c) ==
    CASE op = "filter" -> filter(c, Kw(IdGt, <<1>>))
      [] op = "order_by" -> order_by(c, <<<<"-", "id">>>>)
      [] op = "deserialize" -> deserialize(c)
      [] op = "__iter__" -> __iter__(c)
      [] op = "__len__" -> __len__(c)
      [] op = "__getitem__" -> __getitem__(c, Slice(None, Some(1)))

\* the object a thread holds after a call: the one the call returned, or
\* the receiver of a terminal call
Held(o) == IF o.new # <<>> THEN o.new[1] ELSE o.self

ThreadCall(t, i, op, parent) ==
    \E o \in {Apply(op, qs[i])} : \E a \in {Apply(op, parent)} :
        /\ Effect(i, op, <<t>>, o)
        /\ cur' = [cur EXCEPT ![t] =
                      [ref |-> IF o.new # <<>> THEN Len(qs) + 1 ELSE i,
                       alone |-> Held(a), rows |-> a.rows, reqs |-> a.reqs,
                       num |-> a.num]]

\* thread t derives its cursor from the parent
Derive == \E t \in Threads : \E op \in ThreadChainingOps :
            /\ nops < MaxSteps
            /\ cur[t].ref = 0
            /\ ThreadCall(t, 1, op, NewCursor)

\* thread t calls the cursor it holds
Work == \E t \in Threads : \E op \in ThreadChainingOps \cup ThreadTerminalOps :
            /\ nops < MaxSteps
            /\ cur[t].ref # 0
            /\ ThreadCall(t, cur[t].ref, op, cur[t].alone)

NextThreads == Derive \/ Work

SpecThreads == Init /\ [][NextThreads]_vars

\* C28: isolation between cursors under concurrency.  In every interleaving
\* of the calls of two threads that each derived a cursor from a common
\* parent, the parent keeps every field, the cursor a thread holds is the
\* one it would hold had the other thread not run, and each call returns the
\* rows and the number and sends the requests it would have alone.
C28_ThreadIsolation ==
    /\ qs[1] = NewCursor
    /\ \A t \in Threads : cur[t].ref # 0 => qs[cur[t].ref] = cur[t].alone
    /\ last.op # "__init__" =>
          /\ last.rows = cur[last.args[1]].rows
          /\ last.reqs = cur[last.args[1]].reqs
          /\ last.num = cur[last.args[1]].num

\* the fragments the filters of a cursor compile to
Fragments(c) == [n \in 1..Len(c.filters) |-> FilterFragment(c.filters[n].k, c.filters[n].v)]

NextWindow ==
    GetItem \/ Str \/ Iter \/ Len_ \/ Contains
    \/ Filter \/ Exclude \/ Search \/ OrderBy

SpecWindow == Init /\ [][NextWindow]_vars

ReadOps == {"__iter__", "__len__", "__contains__"}

DeriveOps == {"filter", "exclude", "search", "order_by"}

WindowOps == {"__getitem__", "__str__"}

====
